---------------------------- MODULE Spec2Model ----------------------------
(***************************************************************************)
(* Instant runoff voting (src/irv.py): Ballot, BallotBox and the IRV       *)
(* election engine.                                                        *)
(*                                                                         *)
(* A proposal identifier "pK" is modelled by the integer K ("p1" is 1,     *)
(* "p9" is 9): Python orders these strings as the integers are ordered,    *)
(* which is all that sorted() in Ballot.validate needs.                    *)
(* A fraction (1/3, 2/3, 3/4) is modelled by the pair <<num, den>>.  The   *)
(* code multiplies floats and takes math.ceil; 3/4 is exact in binary and  *)
(* float(1/3), float(2/3) lie below the true fraction, so for the ballot   *)
(* counts reached here the float ceiling equals the exact ceiling.         *)
(* exit(msg) raises SystemExit: the operation is abandoned, the state it   *)
(* has not yet written stays as it was, and err records which exit it was. *)
(***************************************************************************)
EXTENDS Naturals, Sequences, FiniteSets

VARIABLES
    entries,      \* BallotBox.entries: the ballots, in insertion order
    size,         \* BallotBox.size (0 while the attribute is not yet set)
    elig,         \* ELIGIBILITY_THRESHOLD, as <<num, den>>
    pc,           \* where the program is
    err,          \* which exit() ended the last operation, "none" if it returned
    round,        \* number of tallies IRV.results has completed
    stats,        \* the tally round_stats returned in the last round
    winner,       \* prominent_proposal[0] of the accepting round, 0 before
    min_votes,    \* what find_least_prominent returned last
    eliminated,   \* every proposal handed to discard so far
    orig,         \* BallotBox.entries as they were when IRV.results began
    args,         \* the (proposals, votes) last given to Ballot(...)
    ballot,       \* the Ballot last constructed, NoBallot if none
    twin          \* a second election run beside the first, NoTwin if none

vars == <<entries, size, elig, pc, err, round, stats, winner, min_votes,
          eliminated, orig, args, ballot, twin>>

-----------------------------------------------------------------------------
(* Bounds *)

MaxBallots == 4

\* cap of the round counter; the loop itself has none
MaxRounds == 5

\* longest in_favour and against lists given to the Ballot constructor
MaxInFavour == 3

MaxAgainst == 2

-----------------------------------------------------------------------------
(* Global constants, src/irv.py lines 31-34 *)

ELIGIBLE_VOTERS == 5

PARTICIPATION_THRESHOLD == <<3, 4>>

proposals == <<1, 2, 3>>

\* ELIGIBILITY_THRESHOLD is 1/3 in the source; the specification treats it as
\* election configuration and its scenario runs with 2/3.
EligibilityThresholds == {<<1, 3>>, <<2, 3>>}

-----------------------------------------------------------------------------
(* Generic helpers *)

Range(s) == {s[i] : i \in DOMAIN s}

Min(S) == CHOOSE x \in S : \A y \in S : x <= y

\* math.ceil(n * num / den)
ceil(n, frac) == (n * frac[1] + frac[2] - 1) \div frac[2]

\* the sequence s without its element at index i
RemoveAt(s, i) == [j \in 1..(Len(s) - 1) |-> IF j < i THEN s[j] ELSE s[j + 1]]

\* index of the first occurrence of x in s (x occurs in s)
IndexOf(s, x) == Min({i \in DOMAIN s : s[i] = x})

\* list.remove(x): removes the first occurrence of x
remove(s, x) == RemoveAt(s, IndexOf(s, x))

\* sorted(list)
RECURSIVE sorted(_)
sorted(s) ==
    IF s = <<>> THEN <<>>
    ELSE LET m == Min(Range(s))
         IN  <<m>> \o sorted(remove(s, m))

\* sorted(set(list))
RECURSIVE sorted_set(_)
sorted_set(S) ==
    IF S = {} THEN <<>>
    ELSE LET m == Min(S)
         IN  <<m>> \o sorted_set(S \ {m})

-----------------------------------------------------------------------------
(* Ballot *)

NoBallot == [proposals |-> <<>>, in_favour |-> <<>>, against |-> <<>>, built |-> FALSE]

\* Votes(in_favour=f, against=a); a field left at None reads as [] through the
\* Ballot properties, so it is modelled as the empty list
Votes(f, a) == [in_favour |-> f, against |-> a]

\* mutant: only the favoured proposals are collected
all_votes_in_favour_only(votes) == votes.in_favour

\* Ballot.__init__ line 52
all_votes(votes) == votes.against \o votes.in_favour

\* Ballot.validate: which exit() it takes, "none" if it returns
validate(props, votes) ==
    IF sorted(all_votes(votes)) # sorted_set(Range(all_votes(votes)))
    THEN "DuplicateVote"
    ELSE IF \E i \in DOMAIN all_votes(votes) : all_votes(votes)[i] \notin Range(props)
         THEN "UnknownProposal"
         ELSE "none"

\* the object Ballot(props, votes) leaves behind when validate returns
Ballot(props, votes) ==
    [proposals |-> props, in_favour |-> votes.in_favour,
     against |-> votes.against, built |-> TRUE]

-----------------------------------------------------------------------------
(* BallotBox *)

\* mutant: the size is taken from every ballot, not only the first
addBallot_size_always(es, sz, b) == Len(b.proposals)

\* BallotBox.addBallot lines 102-103
addBallot_size(es, sz, b) == IF Len(es) = 0 THEN Len(b.proposals) ELSE sz

\* BallotBox.addBallot lines 105-108
addBallot_exits(es, sz, b) == Len(b.proposals) # addBallot_size(es, sz, b)

\* BallotBox.addBallot line 110
addBallot_entries(es, sz, b) ==
    IF addBallot_exits(es, sz, b) THEN es ELSE Append(es, b)

\* mutant: the quota is rounded down
validate_participation_floor(es) ==
    Len(es) < (ELIGIBLE_VOTERS * PARTICIPATION_THRESHOLD[1]) \div PARTICIPATION_THRESHOLD[2]

\* BallotBox.validate_participation: TRUE when it exits
validate_participation(es) ==
    Len(es) < ceil(ELIGIBLE_VOTERS, PARTICIPATION_THRESHOLD)

-----------------------------------------------------------------------------
(* IRV *)

\* IRV.init_counter: the dict iterates in the order of entries[0].proposals
init_counter(es) == [p \in Range(es[1].proposals) |-> 0]

\* mutant: the last favoured proposal is counted instead of the first
RECURSIVE count_from_last(_, _, _)
count_from_last(counter, es, i) ==
    IF i > Len(es) THEN counter
    ELSE IF Len(es[i].in_favour) > 0
         THEN count_from_last(
                  [counter EXCEPT ![es[i].in_favour[Len(es[i].in_favour)]] = @ + 1],
                  es, i + 1)
         ELSE count_from_last(counter, es, i + 1)

\* the loop of IRV.round_stats from ballot i on
RECURSIVE count_from(_, _, _)
count_from(counter, es, i) ==
    IF i > Len(es) THEN counter
    ELSE IF Len(es[i].in_favour) > 0
         THEN count_from([counter EXCEPT ![es[i].in_favour[1]] = @ + 1], es, i + 1)
         ELSE count_from(counter, es, i + 1)

\* IRV.round_stats line 221 raises KeyError: a first favourite is no key
round_stats_raises(es) ==
    \E i \in DOMAIN es :
        /\ Len(es[i].in_favour) > 0
        /\ es[i].in_favour[1] \notin DOMAIN init_counter(es)

\* mutant: the tally leaves out the ballot added first
round_stats_skips_first(es) == count_from(init_counter(es), es, 2)

\* IRV.round_stats
round_stats(es) == count_from(init_counter(es), es, 1)

\* mutant: the threshold has to be exceeded
passes_strictly(prominent_vote_count, es, threshold) ==
    prominent_vote_count > ceil(Len(es), threshold)

\* mutant: the threshold is divided as integers, 1 // 3 = 0
passes_integer_division(prominent_vote_count, es, threshold) ==
    prominent_vote_count >= Len(es) * (threshold[1] \div threshold[2])

\* IRV.passes
passes(prominent_vote_count, es, threshold) ==
    prominent_vote_count >= ceil(Len(es), threshold)

\* mutant: of several maximal items the last one is kept
find_most_prominent_last(keys, st) ==
    LET i == CHOOSE j \in DOMAIN keys :
                 /\ \A k \in DOMAIN keys : st[keys[k]] <= st[keys[j]]
                 /\ \A k \in DOMAIN keys : st[keys[k]] = st[keys[j]] => k <= j
    IN  <<keys[i], st[keys[i]]>>

\* IRV.find_most_prominent: max() keeps the first maximal item of the dict,
\* whose keys iterate in the order keys; the result is <<proposal, count>>
find_most_prominent(keys, st) ==
    LET i == Min({j \in DOMAIN keys :
                    \A k \in DOMAIN keys : st[keys[k]] <= st[keys[j]]})
    IN  <<keys[i], st[keys[i]]>>

\* mutant: the zero items are not popped
pop_nothing(st) == st

\* IRV.find_least_prominent lines 190-193: stats with its zero items popped
pop_zeros(st) == [p \in {q \in DOMAIN st : st[q] # 0} |-> st[p]]

\* mutant: of several least prominent proposals only the first is returned
find_least_prominent_first(keys, st) ==
    LET nonzero == SelectSeq(keys, LAMBDA k : st[k] # 0)
        least == SelectSeq(nonzero, LAMBDA k : \A j \in Range(nonzero) : st[k] <= st[j])
    IN  IF least = <<>> THEN <<>> ELSE <<Head(least)>>

\* IRV.find_least_prominent lines 195-199
find_least_prominent(keys, st) ==
    LET removed_zeros == pop_zeros(st)
    IN  SelectSeq(keys, LAMBDA k :
            /\ k \in DOMAIN removed_zeros
            /\ removed_zeros[k] = Min(Range(removed_zeros)))

\* mutant: a proposal is removed only where it is the first favourite
discard_proposal_first_place(es, proposal) ==
    [i \in DOMAIN es |->
        IF es[i].in_favour # <<>> /\ Head(es[i].in_favour) = proposal
        THEN [es[i] EXCEPT !.in_favour = Tail(@)]
        ELSE es[i]]

\* mutant: the proposal is struck from the against list as well
discard_proposal_everywhere(es, proposal) ==
    [i \in DOMAIN es |->
        [es[i] EXCEPT
            !.in_favour = SelectSeq(@, LAMBDA x : x # proposal),
            !.against = SelectSeq(@, LAMBDA x : x # proposal)]]

\* mutant: the first favourite is removed from a ballot that ranks the proposal
discard_proposal_pops_head(es, proposal) ==
    [i \in DOMAIN es |->
        IF proposal \in Range(es[i].in_favour)
        THEN [es[i] EXCEPT !.in_favour = Tail(@)]
        ELSE es[i]]

\* mutant: a ballot that names proposals it is against keeps its favour list
discard_proposal_unopposed(es, proposal) ==
    [i \in DOMAIN es |->
        IF proposal \in Range(es[i].in_favour) /\ es[i].against = <<>>
        THEN [es[i] EXCEPT !.in_favour = remove(@, proposal)]
        ELSE es[i]]

\* IRV.discard lines 234-236 for one proposal
discard_proposal(es, proposal) ==
    [i \in DOMAIN es |->
        IF proposal \in Range(es[i].in_favour)
        THEN [es[i] EXCEPT !.in_favour = remove(@, proposal)]
        ELSE es[i]]

\* IRV.discard from the i-th least prominent proposal on
RECURSIVE discard_from(_, _, _)
discard_from(es, least_prominent, i) ==
    IF i > Len(least_prominent) THEN es
    ELSE discard_from(discard_proposal(es, least_prominent[i]), least_prominent, i + 1)

\* mutant: nothing is removed from the ballots
discard_nothing(es, least_prominent) == es

\* IRV.discard
discard(es, least_prominent) == discard_from(es, least_prominent, 1)

\* mutant: one proposal without votes is taken for no votes at all
no_votes_left_some_zero(st) == \E p \in DOMAIN st : st[p] = 0

\* IRV.results line 152, read on the stats find_least_prominent has popped
no_votes_left(st) == Cardinality({p \in DOMAIN pop_zeros(st) : pop_zeros(st)[p] > 0}) = 0

-----------------------------------------------------------------------------
(* Inputs *)

\* the proposal tuples ballots are cast against: the source's, and two of
\* another cardinality
ProposalSets == {proposals, <<1, 2>>, <<2, 3>>}

\* get_votes() of the source
get_votes ==
    << Votes(<<1, 3, 2>>, <<>>),
       Votes(<<1, 2>>, <<3>>),
       Votes(<<2>>, <<1, 3>>),
       Votes(<<2>>, <<3>>),
       Votes(<<3, 2, 1>>, <<>>),
       Votes(<<1>>, <<2>>) >>

\* votes offered to the program: the source's sample, a vote against every
\* proposal, and malformed votes
VoteInputs ==
    Range(get_votes) \cup
    { Votes(<<>>, <<1, 2, 3>>),
      Votes(<<1, 1>>, <<>>), Votes(<<9>>, <<>>), Votes(<<1>>, <<1>>),
      Votes(<<9, 9>>, <<>>) }

NoArgs == <<>>

NoTwin == <<>>

-----------------------------------------------------------------------------
(* The election program: votes are cast, then IRV(ballot_box) runs *)

Init ==
    /\ entries = <<>>
    /\ size = 0
    /\ elig \in EligibilityThresholds
    /\ pc = "setup"
    /\ err = "none"
    /\ round = 0
    /\ stats = <<>>
    /\ winner = 0
    /\ min_votes = <<>>
    /\ eliminated = {}
    /\ orig = <<>>
    /\ args = NoArgs
    /\ ballot = NoBallot
    /\ twin = NoTwin

\* line 256: ballot_box.addBallot(Ballot(proposals, vote))
Vote(props, votes) ==
    /\ pc = "setup"
    /\ Len(entries) < MaxBallots
    /\ IF validate(props, votes) # "none"
       THEN /\ err' = validate(props, votes)
            /\ UNCHANGED <<entries, size>>
       ELSE LET b == Ballot(props, votes)
            IN  /\ size' = addBallot_size(entries, size, b)
                /\ entries' = addBallot_entries(entries, size, b)
                /\ err' = IF addBallot_exits(entries, size, b)
                          THEN "CapacityMismatch" ELSE "none"
    /\ UNCHANGED <<elig, pc, round, stats, winner, min_votes, eliminated,
                   orig, args, ballot, twin>>

\* mutant: the failed validation is reported and the election goes on
StartElection_goes_on ==
    /\ pc = "setup"
    /\ pc' = "tallying"
    /\ err' = IF validate_participation(entries)
              THEN "InsufficientParticipation" ELSE "none"
    /\ orig' = entries
    /\ UNCHANGED <<entries, size, elig, round, stats, winner, min_votes,
                   eliminated, args, ballot>>

\* IRV.__init__ and IRV.results up to the loop (line 133)
StartElection ==
    /\ pc = "setup"
    /\ IF validate_participation(entries)
       THEN /\ pc' = "rejected"
            /\ err' = "InsufficientParticipation"
            /\ UNCHANGED orig
       ELSE /\ pc' = "tallying"
            /\ err' = "none"
            /\ orig' = entries
    /\ UNCHANGED <<entries, size, elig, round, stats, winner, min_votes,
                   eliminated, args, ballot>>

\* one iteration of the loop of IRV.results (lines 135-154)
Round ==
    /\ pc = "tallying"
    /\ round < MaxRounds
    /\ IF round_stats_raises(entries)
       THEN /\ pc' = "error"
            /\ err' = "KeyError"
            /\ UNCHANGED <<entries, round, stats, winner, min_votes, eliminated>>
       ELSE LET st == round_stats(entries)
                keys == entries[1].proposals
                prominent_proposal == find_most_prominent(keys, st)
                least == find_least_prominent(keys, st)
            IN  /\ round' = round + 1
                /\ stats' = st
                /\ err' = "none"
                /\ IF passes(prominent_proposal[2], entries, elig)
                   THEN /\ pc' = "accepted"
                        /\ winner' = prominent_proposal[1]
                        /\ UNCHANGED <<entries, min_votes, eliminated>>
                   ELSE /\ min_votes' = least
                        /\ entries' = discard(entries, least)
                        /\ eliminated' = eliminated \cup Range(least)
                        /\ pc' = IF no_votes_left(st) THEN "none" ELSE "tallying"
                        /\ UNCHANGED winner
    /\ UNCHANGED <<size, elig, orig, args, ballot>>

\* one election: no second run beside it
Next ==
    \/ \E props \in ProposalSets, votes \in VoteInputs : Vote(props, votes)
    \/ StartElection /\ UNCHANGED twin
    \/ Round /\ UNCHANGED twin

Spec == Init /\ [][Next]_vars

\* the loop of IRV.results runs on once entered
LiveSpec == Spec /\ WF_vars(Round /\ UNCHANGED twin)

-----------------------------------------------------------------------------
(* The Ballot constructor on its own *)

SeqsUpTo(S, n) == UNION {[1..k -> S] : k \in 0..n}

\* identifiers a caller may write on a vote: p1, p2, p3 and the unknown p9
Identifiers == {1, 2, 3, 9}

BallotVoteInputs ==
    VoteInputs \cup
    {Votes(f, a) : f \in SeqsUpTo(Identifiers, MaxInFavour),
                   a \in SeqsUpTo(Identifiers, MaxAgainst)}

\* Ballot(props, votes): __init__ runs validate, which may exit
NewBallot(props, votes) ==
    /\ pc = "setup"
    /\ args' = <<props, votes>>
    /\ err' = validate(props, votes)
    /\ ballot' = IF validate(props, votes) = "none"
                 THEN Ballot(props, votes) ELSE NoBallot
    /\ UNCHANGED <<entries, size, elig, pc, round, stats, winner, min_votes,
                   eliminated, orig, twin>>

\* the arguments are chosen first, then the constructor runs once on them
InitBallot ==
    /\ entries = <<>>
    /\ size = 0
    /\ elig \in EligibilityThresholds
    /\ pc = "setup"
    /\ err = "none"
    /\ round = 0
    /\ stats = <<>>
    /\ winner = 0
    /\ min_votes = <<>>
    /\ eliminated = {}
    /\ orig = <<>>
    /\ args \in ProposalSets \X BallotVoteInputs
    /\ ballot = NoBallot
    /\ twin = NoTwin

Constructed == ballot.built \/ err # "none"

NextBallot == ~Constructed /\ NewBallot(args[1], args[2])

SpecBallot == InitBallot /\ [][NextBallot]_vars

-----------------------------------------------------------------------------
(* The BallotBox on its own: ballots are constructed, then added *)

BoxVoteInputs == {Votes(<<>>, <<>>), Votes(<<2>>, <<>>), Votes(<<2, 2>>, <<>>)}

\* ballot_box.addBallot(ballot)
AddBallot ==
    /\ pc = "setup"
    /\ ballot.built
    /\ Len(entries) < MaxBallots
    /\ size' = addBallot_size(entries, size, ballot)
    /\ entries' = addBallot_entries(entries, size, ballot)
    /\ err' = IF addBallot_exits(entries, size, ballot)
              THEN "CapacityMismatch" ELSE "none"
    /\ ballot' = NoBallot
    /\ UNCHANGED <<elig, pc, round, stats, winner, min_votes, eliminated,
                   orig, args, twin>>

NextBox ==
    \/ /\ ~ballot.built
       /\ \E props \in ProposalSets, votes \in BoxVoteInputs : NewBallot(props, votes)
    \/ AddBallot

SpecBox == Init /\ [][NextBox]_vars

-----------------------------------------------------------------------------
(* Two elections side by side: IRV(ballot_box).results() run on two boxes *)

\* an election whose ballot box es is filled and whose IRV is not yet built
NewElection(es) ==
    [entries |-> es, pc |-> "setup", round |-> 0, stats |-> <<>>,
     winner |-> 0, min_votes |-> <<>>, eliminated |-> {}]

\* IRV.__init__ and IRV.results up to the loop, on the election t
irv_start(t) ==
    [t EXCEPT !.pc = IF validate_participation(t.entries)
                     THEN "rejected" ELSE "tallying"]

\* one iteration of the loop of IRV.results (lines 135-154), on the election t
irv_iteration(t, threshold) ==
    IF t.pc # "tallying" THEN t
    ELSE IF round_stats_raises(t.entries) THEN [t EXCEPT !.pc = "error"]
    ELSE LET st == round_stats(t.entries)
             keys == t.entries[1].proposals
             prominent_proposal == find_most_prominent(keys, st)
             least == find_least_prominent(keys, st)
         IN  IF passes(prominent_proposal[2], t.entries, threshold)
             THEN [t EXCEPT !.round = @ + 1, !.stats = st,
                            !.pc = "accepted",
                            !.winner = prominent_proposal[1]]
             ELSE [t EXCEPT !.round = @ + 1, !.stats = st,
                            !.min_votes = least,
                            !.entries = discard(t.entries, least),
                            !.eliminated = @ \cup Range(least),
                            !.pc = IF no_votes_left(st)
                                   THEN "none" ELSE "tallying"]

\* both elections are started
TwinStart == StartElection /\ twin' = irv_start(twin)

\* both elections run one iteration of the loop
TwinRound == Round /\ twin' = irv_iteration(twin, elig)

NextTwin == TwinStart \/ TwinRound

\* the state after the loop of main() has added the ballots es to the box,
\* beside a second box tw
InitBoxes(es, tw) ==
    /\ entries = es
    /\ size = Len(es[1].proposals)
    /\ elig \in EligibilityThresholds
    /\ pc = "setup"
    /\ err = "none"
    /\ round = 0
    /\ stats = <<>>
    /\ winner = 0
    /\ min_votes = <<>>
    /\ eliminated = {}
    /\ orig = <<>>
    /\ args = NoArgs
    /\ ballot = NoBallot
    /\ twin = NewElection(tw)

\* the votes of VoteInputs a Ballot over props accepts
ValidVotes(props) == {v \in VoteInputs : validate(props, v) = "none"}

\* the proposal tuple of the source, and the same proposals in another order
OrderedProposalSets == {proposals, <<3, 1, 2>>}

\* the box es with the ballots at i and i + 1 added in the other order
swap(es, i) ==
    [j \in DOMAIN es |-> IF j = i THEN es[i + 1]
                         ELSE IF j = i + 1 THEN es[i] ELSE es[j]]

InitPermuted ==
    \E props \in OrderedProposalSets, n \in 2..MaxBallots :
        \E vs \in [1..n -> ValidVotes(props)], i \in 1..(n - 1) :
            LET es == [j \in 1..n |-> Ballot(props, vs[j])]
            IN  InitBoxes(es, swap(es, i))

\* the same ballots added in two orders that differ by one transposition;
\* transpositions of neighbours generate every permutation
SpecPermuted == InitPermuted /\ [][NextTwin]_vars

\* the in_favour lists of VoteInputs that a Ballot over proposals accepts
FavourInputs == {v.in_favour : v \in ValidVotes(proposals)}

\* against lists a valid vote may carry beside the in_favour list f: none,
\* those of VoteInputs, and every proposal that f leaves out
AgainstInputs(f) ==
    {<<>>, sorted_set(Range(proposals) \ Range(f))} \cup
    {v.against : v \in {w \in ValidVotes(proposals) : w.in_favour = f}}

\* the votes built from them
AgainstVoteInputs ==
    UNION {{Votes(f, a) : a \in AgainstInputs(f)} : f \in FavourInputs}

InitAgainst ==
    \E n \in 1..MaxBallots :
        \E vs \in [1..n -> AgainstVoteInputs] :
            InitBoxes([j \in 1..n |-> Ballot(proposals, Votes(vs[j].in_favour, <<>>))],
                      [j \in 1..n |-> Ballot(proposals, vs[j])])

\* the same in_favour lists cast with no against list and with against lists;
\* two boxes that both equal the box without against lists equal each other
SpecAgainst == InitAgainst /\ [][NextTwin]_vars

-----------------------------------------------------------------------------
(* Vocabulary of the properties *)

\* the least integer that is >= n * frac, for a fraction frac <= 1
Required(n, frac) ==
    CHOOSE k \in 0..n :
        /\ k * frac[2] >= n * frac[1]
        /\ \A j \in 0..n : j * frac[2] >= n * frac[1] => k <= j

\* number of ballots of es whose favour list is non-empty and starts with p
FirstPreferences(es, p) ==
    Cardinality({i \in DOMAIN es :
                   es[i].in_favour # <<>> /\ Head(es[i].in_favour) = p})

\* number of ballots of es with a non-empty favour list
Voting(es) == Cardinality({i \in DOMAIN es : es[i].in_favour # <<>>})

RECURSIVE SumOver(_, _)
SumOver(st, S) ==
    IF S = {} THEN 0
    ELSE LET p == CHOOSE q \in S : TRUE
         IN  st[p] + SumOver(st, S \ {p})

TopCount(st) == CHOOSE c \in Range(st) : \A d \in Range(st) : d <= c

AllZero(st) == \A p \in DOMAIN st : st[p] = 0

\* every ballot was cast against the proposal tuple of the first one
Uniform(es) == \A i \in DOMAIN es : es[i].proposals = es[1].proposals

\* this step completed a round of the loop
RoundRan == round' = round + 1

Terminal == pc \in {"accepted", "none"}

-----------------------------------------------------------------------------
(* C1: in every round the engine accepts exactly when the leader's count   *)
(* is at least ceil(N * eligibilityThreshold), N being the number of       *)
(* ballots in the box, empty favour lists included and the same in every   *)
(* round; the accepted proposal has the round's maximum count and the      *)
(* accepting round eliminates nothing.                                     *)
C1_AcceptIffThreshold ==
    [][RoundRan =>
        /\ Len(entries) = Len(orig)
        /\ (pc' = "accepted") <=> (TopCount(stats') >= Required(Len(orig), elig))
        /\ pc' = "accepted" =>
              /\ winner' \in DOMAIN stats'
              /\ stats'[winner'] = TopCount(stats')
              /\ entries' = entries
              /\ eliminated' = eliminated]_vars

\* accepted in a later round, exactly on the threshold, in a box that holds a
\* ballot with an empty favour list
C1_Witness ==
    /\ pc = "accepted"
    /\ round >= 2
    /\ \E i \in DOMAIN orig : orig[i].in_favour = <<>>
    /\ stats[winner] = Required(Len(orig), elig)

(* C2: on a participation-valid box of validated ballots over one proposal *)
(* set, the loop of IRV.results always reaches Accepted or NoneAccepted.   *)
(* A loop that raised, or that ran into the round cap, would stay short of *)
(* both for ever.                                                          *)
C2_Terminates == (pc = "tallying" /\ Uniform(entries)) ~> Terminal

\* an election that ended after three rounds or more
C2_Witness == Terminal /\ round >= 3 /\ Uniform(entries)

C4_NoneIffZeroTally ==
    [][RoundRan =>
        /\ (pc' = "none") <=>
              /\ TopCount(stats') < Required(Len(orig), elig)
              /\ AllZero(stats')
        /\ (round = 0 /\ \A i \in DOMAIN entries : entries[i].in_favour = <<>>) =>
              /\ AllZero(stats')
              /\ pc' = "none"
              /\ entries' = entries]_vars

\* NoneAccepted in round 1 on a box of empty favour lists, one of them the
\* ballot against every proposal
C4_Witness ==
    /\ pc = "none"
    /\ round = 1
    /\ \A i \in DOMAIN orig : orig[i].in_favour = <<>>
    /\ \E i \in DOMAIN orig : orig[i].against = <<1, 2, 3>>

\* Scenario A of the specification: four ballots over (p1, p2, p3)
ScenarioA ==
    << Ballot(proposals, Votes(<<1, 3, 2>>, <<>>)),
       Ballot(proposals, Votes(<<1, 2>>, <<3>>)),
       Ballot(proposals, Votes(<<2>>, <<1, 3>>)),
       Ballot(proposals, Votes(<<3, 2, 1>>, <<>>)) >>

(* C5: Scenario A with threshold 2/3: the first tally is p1:2, p2:1, p3:1, *)
(* 3 votes are required, nothing is accepted in round 1, exactly p2 and p3 *)
(* are eliminated, the second tally is p1:3, p2:0, p3:0 and p1 is accepted *)
(* in round 2.                                                             *)
C5_ScenarioA ==
    (orig = ScenarioA /\ elig = <<2, 3>>) =>
        /\ Required(Len(orig), elig) = 3
        /\ round = 0 => pc = "tallying"
        /\ round = 1 =>
              /\ stats = [p \in {1, 2, 3} |-> IF p = 1 THEN 2 ELSE 1]
              /\ pc = "tallying"
              /\ winner = 0
              /\ eliminated = {2, 3}
              /\ Range(min_votes) = {2, 3}
        /\ round = 2 =>
              /\ stats = [p \in {1, 2, 3} |-> IF p = 1 THEN 3 ELSE 0]
              /\ pc = "accepted"
              /\ winner = 1
              /\ eliminated = {2, 3}
        /\ round <= 2

C5_Witness ==
    orig = ScenarioA /\ elig = <<2, 3>> /\ round = 2 /\ pc = "accepted"

(* C6: once a proposal has been eliminated it is in no ballot's favour     *)
(* list, and every later tally gives it 0.                                 *)
C6_EliminationMonotone ==
    [][/\ \A p \in eliminated' : \A i \in DOMAIN entries' :
              p \notin Range(entries'[i].in_favour)
       /\ RoundRan => \A p \in eliminated : stats'[p] = 0]_vars

\* a second or later tally, after the elimination of a proposal that some
\* ballot ranked below its first place
C6_Witness ==
    /\ round >= 2
    /\ \E p \in eliminated : \E i \in DOMAIN orig :
          /\ p \in Range(orig[i].in_favour)
          /\ Head(orig[i].in_favour) # p
          /\ stats[p] = 0

(* C7: every tally maps each proposal of the proposal set, eliminated ones *)
(* included, to the number of ballots whose favour list at the time is     *)
(* non-empty and starts with it; the counts sum to the number of ballots   *)
(* with a non-empty favour list.                                           *)
C7_TallyCountsFirstPreferences ==
    [][RoundRan =>
        /\ DOMAIN stats' = Range(orig[1].proposals)
        /\ \A p \in DOMAIN stats' : stats'[p] = FirstPreferences(entries, p)
        /\ SumOver(stats', DOMAIN stats') = Voting(entries)]_vars

\* a tally in which an eliminated proposal is listed with 0, taken while one
\* ballot has no favoured proposal and another still has one
C7_Witness ==
    /\ round >= 2
    /\ \E p \in eliminated : p \in DOMAIN stats /\ stats[p] = 0
    /\ \E p \in DOMAIN stats : stats[p] > 0
    /\ Voting(orig) < Len(orig)

(* C10: validate_participation fails exactly when the box holds fewer than *)
(* ceil(eligibleVoters * participationThreshold) ballots; with 5 eligible  *)
(* voters and threshold 3/4 a box of 3 fails and a box of 4 passes.        *)
C10_ParticipationQuota ==
    [][(pc = "setup" /\ pc' # "setup") =>
        /\ (pc' = "rejected" /\ err' = "InsufficientParticipation") <=>
              (Len(entries) < Required(ELIGIBLE_VOTERS, PARTICIPATION_THRESHOLD))
        /\ pc' \in {"rejected", "tallying"}
        /\ (ELIGIBLE_VOTERS = 5 /\ PARTICIPATION_THRESHOLD = <<3, 4>>) =>
              /\ Len(entries) = 3 => pc' = "rejected"
              /\ Len(entries) = 4 => pc' = "tallying"]_vars

\* a box of 3 ballots was turned away
C10_Witness == pc = "rejected" /\ Len(entries) = 3

(* C8: constructing a Ballot fails with the duplicate-vote error when an   *)
(* identifier occurs twice in against + in_favour, fails with the          *)
(* unknown-proposal error when (none does and) an identifier is outside    *)
(* the proposal set, and succeeds otherwise; a constructed ballot has      *)
(* in_favour and against disjoint and duplicate-free, with                 *)
(* len(in_favour) + len(against) <= len(proposals).                        *)
C8_BallotValidation ==
    Constructed =>
        LET props == args[1]
            combined == args[2].against \o args[2].in_favour
            Repeated == \E i, j \in DOMAIN combined : i < j /\ combined[i] = combined[j]
            Unknown == \E i \in DOMAIN combined : combined[i] \notin Range(props)
        IN  /\ Repeated => err = "DuplicateVote"
            /\ (Unknown /\ ~Repeated) => err = "UnknownProposal"
            /\ (Repeated \/ Unknown) <=> ~ballot.built
            /\ ballot.built =>
                  /\ err = "none"
                  /\ ballot.proposals = props
                  /\ ballot.in_favour = args[2].in_favour
                  /\ ballot.against = args[2].against
                  /\ Range(ballot.in_favour) \cap Range(ballot.against) = {}
                  /\ Cardinality(Range(ballot.in_favour)) = Len(ballot.in_favour)
                  /\ Cardinality(Range(ballot.against)) = Len(ballot.against)
                  /\ Len(ballot.in_favour) + Len(ballot.against) <= Len(props)

\* Scenario C: in_favour = [p1, p1] was refused as a duplicate vote
C8_Witness ==
    /\ args = <<proposals, Votes(<<1, 1>>, <<>>)>>
    /\ err = "DuplicateVote"
    /\ ~ballot.built

(* C9: all ballots in the box have proposal tuples of the length of the    *)
(* first ballot's; addBallot of a ballot of another length is refused and  *)
(* leaves entries as they were, any other ballot is appended at the end.   *)
C9_UniformCardinality ==
    [][/\ \A i \in DOMAIN entries' :
              Len(entries'[i].proposals) = Len(entries'[1].proposals)
       /\ (ballot.built /\ ~ballot'.built) =>
              IF entries # <<>> /\ Len(ballot.proposals) # Len(entries[1].proposals)
              THEN entries' = entries /\ err' = "CapacityMismatch"
              ELSE entries' = Append(entries, ballot) /\ err' = "none"]_vars

\* a box of two ballots has just refused a ballot of another cardinality
C9_Witness ==
    /\ Len(entries) = 2
    /\ err = "CapacityMismatch"
    /\ Len(args[1]) # Len(entries[1].proposals)

-----------------------------------------------------------------------------
\* the proposals with the least count among the positive counts of tally st
LeastPositive(st) ==
    {p \in DOMAIN st : st[p] > 0 /\ \A q \in DOMAIN st : st[q] > 0 => st[p] <= st[q]}

\* s without the elements of S, the others in their order
Without(s, S) == SelectSeq(s, LAMBDA x : x \notin S)

\* total number of favoured entries over all ballots
RECURSIVE FavouredEntries(_)
FavouredEntries(es) ==
    IF es = <<>> THEN 0
    ELSE Len(Head(es).in_favour) + FavouredEntries(Tail(es))

\* s can be had from t by deleting elements
RECURSIVE IsSubsequence(_, _)
IsSubsequence(s, t) ==
    IF s = <<>> THEN TRUE
    ELSE IF t = <<>> THEN FALSE
    ELSE IF Head(s) = Head(t) THEN IsSubsequence(Tail(s), Tail(t))
    ELSE IsSubsequence(s, Tail(t))

Quota == Required(ELIGIBLE_VOTERS, PARTICIPATION_THRESHOLD)

(* C11: when the box fails participation validation at the start of the    *)
(* election, no round runs: no tally is computed, no favour list changes   *)
(* and neither Accepted nor NoneAccepted is reported.                      *)
C11_NoRoundWithoutParticipation ==
    [][/\ (pc = "setup" /\ pc' # "setup" /\ Len(entries) < Quota) =>
              /\ pc' = "rejected"
              /\ entries' = entries
              /\ round' = 0 /\ stats' = <<>> /\ winner' = 0 /\ eliminated' = {}
       /\ pc = "rejected" =>
              /\ pc' = "rejected"
              /\ UNCHANGED <<entries, round, stats, winner, eliminated>>]_vars

\* a box short of the quota, holding ballots with favoured proposals, was
\* turned away untouched
C11_Witness ==
    /\ pc = "rejected"
    /\ Len(entries) = Quota - 1
    /\ \A i \in DOMAIN entries : entries[i].in_favour # <<>>
    /\ round = 0

(* C12: in a round without a winner the proposals eliminated are exactly   *)
(* those whose count is the minimum of the positive counts of the round,   *)
(* ties together and zero counts never; each is removed from every favour  *)
(* list wherever it stands, the other entries keeping their order.         *)
C12_EliminatesLeastPositive ==
    [][(RoundRan /\ pc' # "accepted") =>
        /\ Range(min_votes') = LeastPositive(stats')
        /\ eliminated' = eliminated \cup LeastPositive(stats')
        /\ Len(entries') = Len(entries)
        /\ \A i \in DOMAIN entries :
              entries'[i] = [entries[i] EXCEPT
                  !.in_favour = Without(entries[i].in_favour, Range(min_votes'))]]_vars

\* two tied proposals were eliminated together, one of them from below the
\* first place of a ballot, while a proposal with no votes stayed on a ballot
C12_Witness ==
    /\ round = 1
    /\ pc = "tallying"
    /\ Cardinality(Range(min_votes)) = 2
    /\ \E i \in DOMAIN orig : \E k \in 2..Len(orig[i].in_favour) :
          orig[i].in_favour[k] \in Range(min_votes)
    /\ \E p \in DOMAIN stats : \E i \in DOMAIN entries :
          stats[p] = 0 /\ p \in Range(entries[i].in_favour)

(* C13: in every round that accepts no winner while some ballot still has  *)
(* a favoured proposal, at least one proposal is eliminated and the total  *)
(* number of favoured entries over all ballots goes down.                  *)
C13_EliminationProgress ==
    [][(RoundRan /\ pc' # "accepted" /\ Voting(entries) > 0) =>
        /\ min_votes' # <<>>
        /\ eliminated' # eliminated
        /\ FavouredEntries(entries') < FavouredEntries(entries)]_vars

\* a third round is about to follow two rounds that eliminated
C13_Witness ==
    /\ round = 2
    /\ pc = "tallying"
    /\ FavouredEntries(entries) < FavouredEntries(orig)
    /\ Voting(entries) > 0

(* C16: during an election the engine changes nothing but the favour       *)
(* lists: number and order of the ballots, every against list and the      *)
(* proposal tuples stay as they were, and each favour list is a            *)
(* subsequence of its original.                                            *)
C16_OnlyFavourListsShrink ==
    pc \in {"tallying", "accepted", "none", "error"} =>
        /\ Len(entries) = Len(orig)
        /\ size = Len(orig[1].proposals)
        /\ \A i \in DOMAIN orig :
              /\ entries[i].proposals = orig[i].proposals
              /\ entries[i].against = orig[i].against
              /\ IsSubsequence(entries[i].in_favour, orig[i].in_favour)

\* an eliminated proposal is still on the against list of a ballot, and a
\* ballot has kept its first favourite while losing one ranked below it
C16_Witness ==
    /\ Terminal
    /\ \E i \in DOMAIN entries : Range(entries[i].against) \cap eliminated # {}
    /\ \E i \in DOMAIN entries :
          /\ entries[i].in_favour # <<>>
          /\ Head(entries[i].in_favour) = Head(orig[i].in_favour)
          /\ Len(entries[i].in_favour) < Len(orig[i].in_favour)

(* C17: from one round to the next the count of a proposal that has not    *)
(* been eliminated never goes down; a count drops only to 0, by the        *)
(* elimination of the proposal itself.                                     *)
C17_CountsNeverDrop ==
    [][(RoundRan /\ round >= 1) =>
        \A p \in DOMAIN stats :
            /\ p \notin eliminated => stats'[p] >= stats[p]
            /\ stats'[p] < stats[p] => (p \in eliminated /\ stats'[p] = 0)]_vars

\* a later tally in which a surviving proposal has gained votes
C17_Witness ==
    /\ round >= 2
    /\ \E p \in DOMAIN stats :
          p \notin eliminated /\ stats[p] > FirstPreferences(orig, p)

(* C18: with a non-empty box and a threshold above 0 the engine never      *)
(* accepts a proposal whose count is 0 in the accepting round; an accepted *)
(* winner is first on some ballot's favour list and was never eliminated.  *)
C18_WinnerHasVotes ==
    (pc = "accepted" /\ Len(entries) > 0 /\ elig[1] > 0) =>
        /\ stats[winner] > 0
        /\ FirstPreferences(entries, winner) > 0
        /\ winner \notin eliminated

\* a winner accepted after other proposals had been eliminated
C18_Witness == pc = "accepted" /\ eliminated # {} /\ stats[winner] > 0


-----------------------------------------------------------------------------
(* C19: the outcome and the per-round tallies do not depend on the order   *)
(* in which the ballots were added: the same ballots added in another      *)
(* order give, round by round, the same tallies, the same eliminations and *)
(* the same result, and each ballot keeps the same favour list.            *)
C19_BallotOrderIndependent ==
    /\ twin.pc = pc
    /\ twin.round = round
    /\ twin.stats = stats
    /\ twin.min_votes = min_votes
    /\ twin.eliminated = eliminated
    /\ twin.winner = winner
    /\ \E i \in 1..(Len(entries) - 1) : twin.entries = swap(entries, i)

\* two orders of a box whose ballots differ ran to the end of an election
\* that eliminated a proposal
C19_Witness ==
    /\ Terminal /\ twin.pc = pc
    /\ round >= 2
    /\ twin.entries # entries
    /\ twin.stats = stats

-----------------------------------------------------------------------------
(* C15: the against lists carry no weight: two elections over the same     *)
(* proposals and thresholds whose ballots have the same favour lists and   *)
(* different valid against lists have the same tally in every round, the   *)
(* same eliminations and the same outcome.                                 *)
C15_AgainstCarriesNoWeight ==
    /\ twin.pc = pc
    /\ twin.round = round
    /\ twin.stats = stats
    /\ twin.min_votes = min_votes
    /\ twin.eliminated = eliminated
    /\ twin.winner = winner
    /\ Len(twin.entries) = Len(entries)
    /\ \A i \in DOMAIN entries :
           twin.entries[i].in_favour = entries[i].in_favour

\* an election that eliminated a proposal ended beside one whose ballots
\* carry other against lists, one of them naming an eliminated proposal
C15_Witness ==
    /\ Terminal /\ twin.pc = pc
    /\ round >= 2
    /\ \E i \in DOMAIN entries :
           /\ twin.entries[i].against # entries[i].against
           /\ Range(twin.entries[i].against) \cap eliminated # {}

-----------------------------------------------------------------------------
(* C14: when several proposals share the maximum count of a round, the     *)
(* leader, reported as winner if the round accepts, is the one that comes  *)
(* first in the order of the proposal tuple; a second run over the same    *)
(* proposal order, ballots and threshold reports the same winner.          *)
C14_FirstInProposalOrderLeads ==
    [][(RoundRan /\ pc' = "accepted") =>
        LET keys == orig[1].proposals
            first == Min({j \in DOMAIN keys : stats'[keys[j]] = TopCount(stats')})
        IN  /\ winner' = keys[first]
            /\ \A j \in DOMAIN keys :
                   stats'[keys[j]] = stats'[winner'] => first <= j
            /\ twin'.pc = "accepted" /\ twin'.winner = keys[first]]_vars

\* a round accepted with two proposals at the maximum count, the winner
\* being the earlier one in the proposal tuple and not the smaller identifier
C14_Witness ==
    /\ pc = "accepted"
    /\ \E p \in DOMAIN stats :
           /\ p # winner /\ stats[p] = stats[winner] /\ p < winner
           /\ IndexOf(orig[1].proposals, winner) < IndexOf(orig[1].proposals, p)
=============================================================================
